---- MODULE Spec2Model ----
(***************************************************************************)
(* DSR penetration-testing suite                                           *)
(* (src/tests/security/penetration-testing/dsr-penetration-test-suite.py). *)
(*                                                                         *)
(* The model follows main(): one DSRPenetrationTester is constructed,      *)
(* authenticate() is called once, then generate_report() runs              *)
(* run_comprehensive_test(), i.e. the five probes in source order, builds  *)
(* the summary and the report.  Every HTTP request is one step; what the   *)
(* network answers is the environment's choice.                            *)
(*                                                                         *)
(* Text is modelled as a sequence of one-character strings, so that        *)
(* str.lower() and the substring test `x in content` are computed as the   *)
(* code computes them.  The timestamp of a finding (datetime.now()) and    *)
(* the test duration are wall-clock readings and are left out.             *)
(***************************************************************************)
EXTENDS Integers, Sequences, FiniteSets, TLC

(***************************************************************************)
(* Bounds of the model (the environment, not the program).                 *)
(***************************************************************************)
\* The environment provokes at most this many findings in a run of one probe,
MaxFindings == 2
\* and at most this many in a whole scan: a response that would make the finding
\* list longer is not offered.
MaxScanFindings == 1
\* How many findings a caller logs by hand before a scan (SpecStatus).
MaxLogged == 4
\* A caller who scans again on the same tester does so while the list holds fewer
\* findings than this (SpecSession).
MaxSessionFindings == 16

(***************************************************************************)
(* Text                                                                    *)
(***************************************************************************)
\* str.lower() on the letters that have another lower-case form
LowerOf ==
    "A" :> "a" @@ "B" :> "b" @@ "C" :> "c" @@ "D" :> "d" @@ "E" :> "e" @@ "F" :> "f" @@
    "G" :> "g" @@ "H" :> "h" @@ "I" :> "i" @@ "J" :> "j" @@ "K" :> "k" @@ "L" :> "l" @@
    "M" :> "m" @@ "N" :> "n" @@ "O" :> "o" @@ "P" :> "p" @@ "Q" :> "q" @@ "R" :> "r" @@
    "S" :> "s" @@ "T" :> "t" @@ "U" :> "u" @@ "V" :> "v" @@ "W" :> "w" @@ "X" :> "x" @@
    "Y" :> "y" @@ "Z" :> "z"

\* one character of str.lower()
LowerChar(c) == IF c \in DOMAIN LowerOf THEN LowerOf[c] ELSE c

\* str.lower()
Lower(s) == [i \in DOMAIN s |-> LowerChar(s[i])]

\* the substring test `p in s`
Contains(s, p) ==
    \E i \in 0..(Len(s) - Len(p)) : SubSeq(s, i + 1, i + Len(p)) = p

\* any(k in s for k in keys)
ContainsAny(s, keys) == \E j \in DOMAIN keys : Contains(s, keys[j])

(***************************************************************************)
(* The tester's fixed tables                                               *)
(***************************************************************************)
\* self.services, in insertion order (a dict iterates in insertion order)
Services == <<"registration", "data_management", "eligibility",
              "interoperability", "payment", "grievance", "analytics">>

ServiceSet == {Services[i] : i \in DOMAIN Services}

\* test_authentication_bypass: test_endpoints
BypassEndpoints == <<"/api/v1/health", "/api/v1/admin/users", "/api/v1/config",
                     "/actuator/env", "/actuator/configprops">>

\* test_authentication_bypass: the keywords of the any(...)
BypassKeywords == << <<"p","a","s","s","w","o","r","d">>,
                     <<"s","e","c","r","e","t">>,
                     <<"k","e","y">>,
                     <<"t","o","k","e","n">> >>

\* test_sql_injection: sql_payloads
SqlPayloads == <<"' OR '1'='1", "'; DROP TABLE users; --",
                 "' UNION SELECT version() --", "1' OR 1=1#",
                 "admin'/**/OR/**/1=1#">>

\* test_sql_injection: test_cases
SqlTestCases == << [endpoint |-> "/api/v1/search", param |-> "query"],
                   [endpoint |-> "/api/v1/households/search", param |-> "name"],
                   [endpoint |-> "/api/v1/users", param |-> "filter"] >>

\* test_sql_injection: sql_errors
SqlErrors == << <<"s","q","l"," ","s","y","n","t","a","x">>,
                <<"m","y","s","q","l">>,
                <<"p","o","s","t","g","r","e","s","q","l">>,
                <<"o","r","a","-">>,
                <<"s","q","l","i","t","e">>,
                <<"s","y","n","t","a","x"," ","e","r","r","o","r">> >>

\* test_xss_vulnerabilities: xss_payloads
XssPayloads == <<
    <<"<","s","c","r","i","p","t",">","a","l","e","r","t","(","\"","X","S","S","\"",")","<","/","s","c","r","i","p","t",">">>,
    <<"<","i","m","g"," ","s","r","c","=","\"","x","\""," ","o","n","e","r","r","o","r","=","\"","a","l","e","r","t","(","1",")","\"",">">>,
    <<"j","a","v","a","s","c","r","i","p","t",":","a","l","e","r","t","(","\"","X","S","S","\"",")">>,
    <<"<","s","v","g"," ","o","n","l","o","a","d","=","\"","a","l","e","r","t","(","1",")","\"",">">>,
    <<"\"",">","<","s","c","r","i","p","t",">","a","l","e","r","t","(","\"","X","S","S","\"",")","<","/","s","c","r","i","p","t",">">> >>

\* test_xss_vulnerabilities: test_endpoints
XssEndpoints == << [url |-> "/api/v1/grievances", method |-> "POST",
                    fields |-> <<"complainantName", "description">>],
                   [url |-> "/api/v1/households", method |-> "POST",
                    fields |-> <<"firstName", "lastName">>],
                   [url |-> "/api/v1/comments", method |-> "POST",
                    fields |-> <<"content", "title">>] >>

\* the marker of `'<script>' in content`
ScriptMarker == <<"<","s","c","r","i","p","t",">">>

\* test_information_disclosure: test_endpoints
DisclosureEndpoints == <<"/api/v1/nonexistent", "/api/v1/users/999999",
                         "/api/v1/admin/config", "/actuator/env",
                         "/actuator/configprops">>

\* test_information_disclosure: sensitive_keywords
SensitiveKeywords == << <<"p","a","s","s","w","o","r","d">>,
                        <<"s","e","c","r","e","t">>,
                        <<"k","e","y">>,
                        <<"t","o","k","e","n">>,
                        <<"d","a","t","a","b","a","s","e">>,
                        <<"c","o","n","n","e","c","t","i","o","n">>,
                        <<"j","d","b","c">>,
                        <<"u","s","e","r","n","a","m","e">>,
                        <<"c","o","n","f","i","g">> >>

\* the probes, in the order run_comprehensive_test calls them
Probes == <<"authentication_bypass", "sql_injection", "xss_vulnerabilities",
            "business_logic_flaws", "information_disclosure">>

\* Python's None
None == "None"

\* truthiness of self.auth_token in `include_auth and self.auth_token`
Truthy(tok) == tok # None /\ tok # ""

(***************************************************************************)
(* Pure parts of the tester                                                *)
(***************************************************************************)
\* d[k] = v on a dict
DictSet(d, k, v) == [x \in (DOMAIN d) \cup {k} |-> IF x = k THEN v ELSE d[x]]

\* len([v for v in vulns if v['severity'] == sev])
CountSeverity(vulns, sev) == Len(SelectSeq(vulns, LAMBDA v : v.severity = sev))

\* get_headers(include_auth): the headers dict, as a function on header names
get_headers(include_auth, tok) ==
    [h \in {"Content-Type", "User-Agent"}
            \cup (IF include_auth /\ Truthy(tok) THEN {"Authorization"} ELSE {}) |->
        CASE h = "Content-Type" -> <<"application/json">>
          [] h = "User-Agent" -> <<"DSR-PenTest-Suite/1.0">>
          [] OTHER -> <<"Bearer", tok>>]

\* a request made without a headers argument carries none of the tester's headers
NoHeaders == [h \in {} |-> <<>>]

\* a faulty variant of log_vulnerability: the new finding is put in front
log_vulnerability_in_front(vulns, service, vuln_type, severity, description, evidence, recommendation) ==
    <<[service |-> service, type |-> vuln_type, severity |-> severity,
       description |-> description, evidence |-> evidence,
       recommendation |-> recommendation]>> \o vulns

\* log_vulnerability: the list with the new finding appended
log_vulnerability(vulns, service, vuln_type, severity, description, evidence, recommendation) ==
    Append(vulns, [service |-> service, type |-> vuln_type, severity |-> severity,
                   description |-> description, evidence |-> evidence,
                   recommendation |-> recommendation])

(***************************************************************************)
(* Faulty variants of definitions of this module.  Each one differs from   *)
(* the definition it is named after in one decision; a property that is    *)
(* about that decision must tell the two apart.                            *)
(***************************************************************************)
\* get_overall_security_status with `high_vulns >= 3` in place of `high_vulns > 3`
StatusHighFromThree(vulns) ==
    LET critical_vulns == CountSeverity(vulns, "CRITICAL")
        high_vulns == CountSeverity(vulns, "HIGH")
    IN  IF critical_vulns > 0 THEN "CRITICAL_RISK"
        ELSE IF high_vulns >= 3 THEN "HIGH_RISK"
        ELSE IF high_vulns > 0 THEN "MEDIUM_RISK"
        ELSE "LOW_RISK"

\* NextPosition with `break` in the except branch in place of `continue`
NextPositionBreakOnError(c, p, npayloads, failed, broke) ==
    IF failed \/ broke \/ p = npayloads THEN <<c + 1, 1>> ELSE <<c, p + 1>>

\* NextPosition without the `break` after a finding
NextPositionNoBreak(c, p, npayloads, failed, broke) ==
    IF p = npayloads THEN <<c + 1, 1>> ELSE <<c, p + 1>>

\* NextPosition that tries a failed request again
NextPositionRetry(c, p, npayloads, failed, broke) ==
    IF failed THEN <<c, p>>
    ELSE IF broke \/ p = npayloads THEN <<c + 1, 1>> ELSE <<c, p + 1>>

\* XssHit without `'<script>' in content`
XssHitAnyPayload(resp, payload) ==
    /\ resp.status \in {200, 201}
    /\ Contains(resp.body, payload)

\* LogicHit with `== 200` in place of `in [200, 201]`
LogicHitOnly200(resp) == resp.status = 200

\* StatusOf with `>= 0` in place of `> 0`
StatusOfNonNegative(n) == IF n >= 0 THEN "VULNERABLE" ELSE "SECURE"

\* DisclosureHit without `response.status_code != 404`
DisclosureHitAnyStatus(resp) == ContainsAny(Lower(resp.body), SensitiveKeywords)

\* BypassHit without `response.status_code == 200`
BypassHitAnyStatus(resp) == ContainsAny(Lower(resp.body), BypassKeywords)

\* 'VULNERABLE' if n > 0 else 'SECURE'
StatusOf(n) == IF n > 0 THEN "VULNERABLE" ELSE "SECURE"

\* test_authentication_bypass: the condition under which a finding is logged
BypassHit(resp) ==
    /\ resp.status = 200
    /\ LET content == Lower(resp.body)
       IN  ContainsAny(content, BypassKeywords)

\* test_sql_injection: the condition under which a finding is logged
SqlHit(resp) ==
    LET content == Lower(resp.body)
    IN  ContainsAny(content, SqlErrors)

\* test_xss_vulnerabilities: the condition under which a finding is logged
XssHit(resp, payload) ==
    /\ resp.status \in {200, 201}
    /\ Contains(resp.body, payload)
    /\ Contains(resp.body, ScriptMarker)

\* test_business_logic_flaws: the condition under which a finding is logged
LogicHit(resp) == resp.status \in {200, 201}

\* test_information_disclosure: found_keywords
FoundKeywords(resp) ==
    LET content == Lower(resp.body)
    IN  SelectSeq(SensitiveKeywords, LAMBDA kw : Contains(content, kw))

\* test_information_disclosure: the condition under which a finding is logged
DisclosureHit(resp) == FoundKeywords(resp) # <<>> /\ resp.status # 404

\* get_overall_security_status
get_overall_security_status(vulns) ==
    LET critical_vulns == CountSeverity(vulns, "CRITICAL")
        high_vulns == CountSeverity(vulns, "HIGH")
    IN  IF critical_vulns > 0 THEN "CRITICAL_RISK"
        ELSE IF high_vulns > 3 THEN "HIGH_RISK"
        ELSE IF high_vulns > 0 THEN "MEDIUM_RISK"
        ELSE "LOW_RISK"

\* get_security_recommendation
get_security_recommendation(status) ==
    CASE status = "CRITICAL_RISK" -> "IMMEDIATE ACTION REQUIRED - Do not deploy to production"
      [] status = "HIGH_RISK" -> "Address high-severity vulnerabilities before production deployment"
      [] status = "MEDIUM_RISK" -> "Review and address vulnerabilities, acceptable for production with monitoring"
      [] status = "LOW_RISK" -> "System is secure for production deployment with standard monitoring"
      [] OTHER -> "Review security findings"

(***************************************************************************)
(* The environment: what a request can come back with.  A response is a    *)
(* status code and a body; a transport failure (timeout, connection        *)
(* refused: requests raises) has failed = TRUE.                            *)
(***************************************************************************)
TransportError == [failed |-> TRUE, status |-> 0, body |-> <<>>]

Response(status, body) == [failed |-> FALSE, status |-> status, body |-> body]

\* what a server's HTML escaping does to one character
EscapeChar(c) ==
    CASE c = "<" -> <<"&","l","t",";">>
      [] c = ">" -> <<"&","g","t",";">>
      [] c = "\"" -> <<"&","q","u","o","t",";">>
      [] c = "&" -> <<"&","a","m","p",";">>
      [] OTHER -> <<c>>

RECURSIVE HtmlEscape(_)
HtmlEscape(s) == IF s = <<>> THEN <<>> ELSE EscapeChar(Head(s)) \o HtmlEscape(Tail(s))

\* {"status":"UP"}
BodyStatusUp == <<"{","\"","s","t","a","t","u","s","\"",":","\"","U","P","\"","}">>
\* API_KEY=abc
BodyApiKey == <<"A","P","I","_","K","E","Y","=","a","b","c">>
\* []
BodyEmptyList == <<"[","]">>
\* You have an error in your SQL syntax error near
BodySqlError == <<"Y","o","u"," ","h","a","v","e"," ","a","n"," ","e","r","r","o","r"," ","i","n"," ","y","o","u","r"," ","S","Q","L"," ","s","y","n","t","a","x"," ","e","r","r","o","r"," ","n","e","a","r">>
\* Not Found
BodyNotFound == <<"N","o","t"," ","F","o","u","n","d">>
\* jdbc:postgresql://db/dsr Password=x
BodyJdbc == <<"j","d","b","c",":","p","o","s","t","g","r","e","s","q","l",":","/","/","d","b","/","d","s","r"," ","P","a","s","s","w","o","r","d","=","x">>

\* a health document, a leaked key, a refusal that names a key
BypassResponses == {Response(200, BodyStatusUp), Response(200, BodyApiKey),
                    Response(403, BodyApiKey)}

\* an empty result, a database error shown with 200, one shown with 500
SqlResponses == {Response(200, BodyEmptyList), Response(200, BodySqlError),
                 Response(500, BodySqlError)}

\* the server echoes the payload (accepting or rejecting the submission), echoes it
\* HTML-escaped, or always answers with the first payload's text
XssResponses(payload) ==
    {Response(200, payload), Response(201, payload), Response(400, payload),
     Response(201, HtmlEscape(payload)), Response(201, XssPayloads[1])}

\* XssResponses of each payload of the list
XssResponseTable == << XssResponses(XssPayloads[1]), XssResponses(XssPayloads[2]),
                       XssResponses(XssPayloads[3]), XssResponses(XssPayloads[4]),
                       XssResponses(XssPayloads[5]) >>

\* the submission is accepted (200, 201) or rejected
LogicResponses == {Response(st, <<>>) : st \in {200, 201, 400}}

\* a plain or a leaking 404, a leaking error page, a leaking or a plain 200
DisclosureResponses == {Response(404, BodyNotFound), Response(404, BodyJdbc),
                        Response(500, BodyJdbc), Response(200, BodyJdbc),
                        Response(200, BodyNotFound)}

\* the login response's body: whether response.json() parses it, and the object
LoginBodies == { [json |-> TRUE, obj |-> [f \in {"accessToken"} |-> "tok"]],
                 [json |-> TRUE, obj |-> [f \in {} |-> ""]],
                 [json |-> FALSE, obj |-> [f \in {} |-> ""]] }

LoginResponses == {Response(st, b) : st \in {200, 401}, b \in LoginBodies}

\* dict.get(key): the value, or None
DictGet(obj, key) == IF key \in DOMAIN obj THEN obj[key] ELSE None

(***************************************************************************)
(* State                                                                   *)
(***************************************************************************)
VARIABLES
    auth_token,       \* self.auth_token
    vulnerabilities,  \* self.vulnerabilities
    pc,               \* where the caller is: "authenticate", a probe's name, "summary", "report", "done"
    si,               \* the probe's position in self.services.items()
    ci,               \* its position in the test cases / endpoints of that service
    pi,               \* its position in the payload list of that test case
    count,            \* the probe's per-service counter (bypass_attempts, vulnerable_endpoints, ...)
    results,          \* the probe's local `results` dict
    test_results,     \* run_comprehensive_test's `test_results`, filled as the probes return
    summary,          \* what run_comprehensive_test returned (None before)
    report,           \* what generate_report returned (None before)
    authenticated,    \* what authenticate() returned (None before)
    last,             \* the latest request and what came back
    sent,             \* how many requests each probe (and the login) has issued
    up,               \* environment: the services that are up
    policy,           \* environment: how a service that is up answers form submissions
    cap               \* environment: how many findings it provokes at most

vars == <<auth_token, vulnerabilities, pc, si, ci, pi, count, results, test_results,
          summary, report, authenticated, last, sent, up, policy, cap>>

EmptyDict == [x \in {} |-> None]

NoRequest == [probe |-> "none", service |-> None, url |-> None, payload |-> 0,
              data |-> EmptyDict, headers |-> NoHeaders,
              failed |-> FALSE, status |-> 0, body |-> <<>>]

\* one request (its URL, the position of its payload in the payload list, its
\* params= or json= argument, its headers= argument) and what came back
Exchange(probe, service, url, payload, data, headers, out) ==
    [probe |-> probe, service |-> service, url |-> url, payload |-> payload,
     data |-> data, headers |-> headers,
     failed |-> out.failed, status |-> out.status, body |-> out.body]

\* A service whose response is a function of the request alone (policy
\* "pattern"): which of the answers it gives is fixed by the place of the request,
\* that is by the service s, the test case c and the payload p.
Patterned(answers, s, c, p) == answers[((s + c + p) % Len(answers)) + 1]

\* the answer of such a service to the request a caller at `at` issues
PatternAnswer(at, s, c, p) ==
    CASE at = "authenticate" ->
            Response(200, [json |-> TRUE, obj |-> [f \in {"accessToken"} |-> "tok"]])
      [] at = "authentication_bypass" ->
            Patterned(<<Response(200, BodyStatusUp), Response(200, BodyApiKey),
                        Response(403, BodyApiKey)>>, s, c, p)
      [] at = "sql_injection" ->
            Patterned(<<Response(200, BodyEmptyList), Response(200, BodyEmptyList),
                        Response(200, BodyEmptyList), Response(500, BodySqlError)>>, s, c, p)
      [] at = "xss_vulnerabilities" ->
            Patterned(<<Response(201, XssPayloads[p]), Response(400, XssPayloads[p]),
                        Response(201, HtmlEscape(XssPayloads[p]))>>, s, c, p)
      [] at = "business_logic_flaws" ->
            Patterned(<<Response(200, <<>>), Response(201, <<>>), Response(400, <<>>)>>, s, c, p)
      [] OTHER ->
            Patterned(<<Response(404, BodyJdbc), Response(500, BodyJdbc),
                        Response(200, BodyNotFound)>>, s, c, p)

\* what the environment may answer to a request of `service`, given the responses
\* a server of that kind can give: a service that is down refuses the connection,
\* one that is up answers, or the request times out
Outcomes(service, responses) ==
    IF service \notin up THEN {TransportError}
    ELSE IF policy = "pattern" THEN {PatternAnswer(pc, si, ci, pi)}
    ELSE responses \cup {TransportError}

\* the same for a form submission: under a policy other than "free" a service
\* that is up answers every submission as the policy says
XssOutcomes(service, p) ==
    IF service \notin up THEN {TransportError}
    ELSE CASE policy = "echo" -> {Response(200, XssPayloads[p]), Response(201, XssPayloads[p])}
           [] policy = "escape" -> {Response(201, HtmlEscape(XssPayloads[p]))}
           [] policy = "fixed" -> {Response(201, XssPayloads[1])}
           [] policy = "pattern" -> {PatternAnswer(pc, si, ci, p)}
           [] OTHER -> XssResponseTable[p] \cup {TransportError}

\* a response that would log a finding is offered only within the budget (a
\* service under a fixed policy answers as the policy says)
Offered(logged) == policy # "free" \/ Len(logged) <= cap

\* The deployments a run is pointed at: at most one of the seven services is up,
\* the others refuse every connection.
Deployments == {{}} \cup {{s} : s \in ServiceSet}

\* DSRPenetrationTester.__init__(base_url, auth_token), before the caller enters
\* `start`; and the environment's choices
Construct(tokens, start, deployments, policies, budget) ==
    /\ auth_token \in tokens
    /\ vulnerabilities = <<>>
    /\ pc = start
    /\ si = 1 /\ ci = 1 /\ pi = 1
    /\ count = 0
    /\ results = EmptyDict
    /\ test_results = EmptyDict
    /\ summary = None
    /\ report = None
    /\ authenticated = None
    /\ last = NoRequest
    /\ sent = [p \in {"login"} \cup {Probes[i] : i \in DOMAIN Probes} |-> 0]
    /\ up \in deployments
    /\ policy \in policies
    /\ cap = budget

\* main(): the tester is constructed without a token
Init == Construct({None}, "authenticate", Deployments, {"free"}, MaxScanFindings)

\* a faulty variant of NextPosition: a probe gives up a test case as soon as the
\* finding list holds anything, whoever logged it
NextPositionQuietAfterFinding(c, p, npayloads, failed, broke) ==
    IF broke \/ p = npayloads \/ vulnerabilities # <<>> THEN <<c + 1, 1>> ELSE <<c, p + 1>>

\* where the loops over the test cases and the payloads stand after one iteration
\* of the innermost loop, which started at test case c and payload p of npayloads:
\* `break` (after a finding) and the end of the payload list lead to the next test
\* case, `continue` (the except branch) and a miss to the next payload
NextPosition(c, p, npayloads, failed, broke) ==
    IF (~failed /\ broke) \/ p = npayloads THEN <<c + 1, 1>> ELSE <<c, p + 1>>

\* the end of one service's iteration of a probe: results[service_name] = {...};
\* after the last service the probe returns `results` to its caller
EndService(probe, entry, next) ==
    /\ count' = 0
    /\ ci' = 1
    /\ pi' = 1
    /\ IF si < Len(Services)
       THEN /\ results' = DictSet(results, Services[si], entry)
            /\ si' = si + 1
            /\ UNCHANGED <<pc, test_results>>
       ELSE /\ test_results' = DictSet(test_results, probe, DictSet(results, Services[si], entry))
            /\ results' = EmptyDict
            /\ si' = 1
            /\ pc' = next

\* authenticate(), as main() calls it; main() goes on to generate_report()
\* whatever it returns
Authenticate ==
    /\ pc = "authenticate"
    /\ \E out \in Outcomes("registration", LoginResponses) :
         /\ last' = Exchange("login", "registration", "/api/v1/auth/login", 0,
                             [email |-> "security.tester@dsr.gov.ph",
                              password |-> "SecureTestPassword123!"],
                             NoHeaders, out)
         /\ IF ~out.failed /\ out.status = 200
            THEN IF out.body.json
                 THEN /\ auth_token' = DictGet(out.body.obj, "accessToken")
                      /\ authenticated' = TRUE
                 ELSE \* response.json() raises: except Exception
                      /\ authenticated' = FALSE
                      /\ UNCHANGED auth_token
            ELSE /\ authenticated' = FALSE
                 /\ UNCHANGED auth_token
    /\ sent' = [sent EXCEPT !["login"] = @ + 1]
    /\ pc' = "authentication_bypass"
    /\ UNCHANGED <<vulnerabilities, si, ci, pi, count, results, test_results, summary,
                   report, up, policy, cap>>

\* test_authentication_bypass: one iteration of `for endpoint in test_endpoints`
BypassRequest ==
    /\ pc = "authentication_bypass"
    /\ ci <= Len(BypassEndpoints)
    /\ \E out \in Outcomes(Services[si], BypassResponses) :
         LET hit == ~out.failed /\ BypassHit(out)
             logged == log_vulnerability(vulnerabilities, Services[si],
                          "Sensitive Data Exposure", "HIGH",
                          <<"Endpoint exposes sensitive information without authentication",
                            BypassEndpoints[ci]>>,
                          <<"Response contains sensitive keywords", out.status>>,
                          "Implement proper authentication and data filtering")
             pos == NextPosition(ci, 1, 1, out.failed, FALSE)
         IN  /\ hit => Offered(logged)
             /\ vulnerabilities' = IF hit THEN logged ELSE vulnerabilities
             /\ count' = IF hit THEN count + 1 ELSE count
             /\ ci' = pos[1]
             /\ last' = Exchange("authentication_bypass", Services[si], BypassEndpoints[ci],
                                 0, EmptyDict, NoHeaders, out)
    /\ sent' = [sent EXCEPT !["authentication_bypass"] = @ + 1]
    /\ UNCHANGED <<auth_token, pc, si, pi, results, test_results, summary, report,
                   authenticated, up, policy, cap>>

\* test_authentication_bypass: results[service_name] = {...}, and the return
BypassEndService ==
    /\ pc = "authentication_bypass"
    /\ ci > Len(BypassEndpoints)
    /\ EndService("authentication_bypass",
                  [bypass_attempts |-> count, status |-> StatusOf(count)],
                  "sql_injection")
    /\ UNCHANGED <<auth_token, vulnerabilities, summary, report, authenticated, last,
                   sent, up, policy, cap>>

\* test_sql_injection: one iteration of `for payload in sql_payloads`
SqlRequest ==
    /\ pc = "sql_injection"
    /\ ci <= Len(SqlTestCases)
    /\ \E out \in Outcomes(Services[si], SqlResponses) :
         LET hit == ~out.failed /\ SqlHit(out)
             logged == log_vulnerability(vulnerabilities, Services[si],
                          "SQL Injection", "CRITICAL",
                          <<"SQL injection vulnerability in", SqlTestCases[ci].endpoint>>,
                          <<"Payload, Response contains SQL errors", SqlPayloads[pi]>>,
                          "Use parameterized queries and input validation")
             pos == NextPosition(ci, pi, Len(SqlPayloads), out.failed, hit)
         IN  /\ hit => Offered(logged)
             /\ vulnerabilities' = IF hit THEN logged ELSE vulnerabilities
             /\ count' = IF hit THEN count + 1 ELSE count
             /\ ci' = pos[1]
             /\ pi' = pos[2]
             /\ last' = Exchange("sql_injection", Services[si], SqlTestCases[ci].endpoint,
                                 pi, [k \in {SqlTestCases[ci].param} |-> SqlPayloads[pi]],
                                 get_headers(TRUE, auth_token), out)
    /\ sent' = [sent EXCEPT !["sql_injection"] = @ + 1]
    /\ UNCHANGED <<auth_token, pc, si, results, test_results, summary, report,
                   authenticated, up, policy, cap>>

\* test_sql_injection: results[service_name] = {...}, and the return
SqlEndService ==
    /\ pc = "sql_injection"
    /\ ci > Len(SqlTestCases)
    /\ EndService("sql_injection",
                  [vulnerable_endpoints |-> count, status |-> StatusOf(count)],
                  "xss_vulnerabilities")
    /\ UNCHANGED <<auth_token, vulnerabilities, summary, report, authenticated, last,
                   sent, up, policy, cap>>

\* test_xss_vulnerabilities: one iteration of `for payload in xss_payloads`
\* (every endpoint's method is 'POST', so `response` is always the fresh one)
XssRequest ==
    /\ pc = "xss_vulnerabilities"
    /\ ci <= Len(XssEndpoints)
    /\ \E out \in XssOutcomes(Services[si], pi) :
         LET hit == ~out.failed /\ XssHit(out, XssPayloads[pi])
             logged == log_vulnerability(vulnerabilities, Services[si],
                          "Cross-Site Scripting (XSS)", "HIGH",
                          <<"XSS vulnerability in", XssEndpoints[ci].url>>,
                          <<"Payload reflected without encoding", pi>>,
                          "Implement proper input validation and output encoding")
             pos == NextPosition(ci, pi, Len(XssPayloads), out.failed, FALSE)
         IN  /\ hit => Offered(logged)
             /\ vulnerabilities' = IF hit THEN logged ELSE vulnerabilities
             /\ count' = IF hit THEN count + 1 ELSE count
             /\ ci' = pos[1]
             /\ pi' = pos[2]
             /\ last' = Exchange("xss_vulnerabilities", Services[si], XssEndpoints[ci].url,
                                 pi, [f \in {XssEndpoints[ci].fields[j] : j \in {1, 2}} |-> pi],
                                 get_headers(TRUE, auth_token), out)
    /\ sent' = [sent EXCEPT !["xss_vulnerabilities"] = @ + 1]
    /\ UNCHANGED <<auth_token, pc, si, results, test_results, summary, report,
                   authenticated, up, policy, cap>>

\* test_xss_vulnerabilities: results[service_name] = {...}, and the return
XssEndService ==
    /\ pc = "xss_vulnerabilities"
    /\ ci > Len(XssEndpoints)
    /\ EndService("xss_vulnerabilities",
                  [vulnerable_fields |-> count, status |-> StatusOf(count)],
                  "business_logic_flaws")
    /\ UNCHANGED <<auth_token, vulnerabilities, summary, report, authenticated, last,
                   sent, up, policy, cap>>

\* test_business_logic_flaws: the one request of a service that has a rule, and
\* results[service_name] = {...} right after it
LogicProbe(service, url, data, severity, description, evidence, recommendation) ==
    /\ pc = "business_logic_flaws"
    /\ Services[si] = service
    /\ \E out \in Outcomes(service, LogicResponses) :
         LET hit == ~out.failed /\ LogicHit(out)
             logged == log_vulnerability(vulnerabilities, service,
                          "Business Logic Bypass", severity, description,
                          <<evidence, out.status>>, recommendation)
             logic_flaws == IF hit THEN 1 ELSE 0
         IN  /\ hit => Offered(logged)
             /\ vulnerabilities' = IF hit THEN logged ELSE vulnerabilities
             /\ last' = Exchange("business_logic_flaws", service, url, 0, data,
                                 get_headers(TRUE, auth_token), out)
             /\ EndService("business_logic_flaws",
                           [logic_flaws |-> logic_flaws, status |-> StatusOf(logic_flaws)],
                           "information_disclosure")
    /\ sent' = [sent EXCEPT !["business_logic_flaws"] = @ + 1]
    /\ UNCHANGED <<auth_token, summary, report, authenticated, up, policy, cap>>

\* if service_name == 'eligibility': negative income
LogicEligibility ==
    LogicProbe("eligibility", "/api/v1/eligibility/assessments",
               [householdId |-> "HH-TEST-123", monthlyIncome |-> -50000,
                assessmentType |-> "FULL_ASSESSMENT"],
               "HIGH",
               "Negative income values accepted in eligibility assessment",
               "Negative income (-50000) was accepted",
               "Implement server-side business rule validation")

\* elif service_name == 'payment': extremely large amount
LogicPayment ==
    LogicProbe("payment", "/api/v1/payments",
               [beneficiaryId |-> "BEN-TEST-123", amount |-> 999999999,
                programId |-> "PANTAWID"],
               "CRITICAL",
               "Unrealistic payment amounts accepted",
               "Large payment amount (999999999) was accepted",
               "Implement payment amount limits and validation")

\* any other service: no request, logic_flaws stays 0
LogicOther ==
    /\ pc = "business_logic_flaws"
    /\ Services[si] \notin {"eligibility", "payment"}
    /\ EndService("business_logic_flaws",
                  [logic_flaws |-> 0, status |-> StatusOf(0)],
                  "information_disclosure")
    /\ UNCHANGED <<auth_token, vulnerabilities, summary, report, authenticated, last,
                   sent, up, policy, cap>>

\* test_information_disclosure: one iteration of `for endpoint in test_endpoints`
DisclosureRequest ==
    /\ pc = "information_disclosure"
    /\ ci <= Len(DisclosureEndpoints)
    /\ \E out \in Outcomes(Services[si], DisclosureResponses) :
         LET hit == ~out.failed /\ DisclosureHit(out)
             logged == log_vulnerability(vulnerabilities, Services[si],
                          "Information Disclosure", "MEDIUM",
                          <<"Sensitive information exposed in", DisclosureEndpoints[ci]>>,
                          <<"Found keywords", FoundKeywords(out)>>,
                          "Remove sensitive information from error messages and responses")
             pos == NextPosition(ci, 1, 1, out.failed, FALSE)
         IN  /\ hit => Offered(logged)
             /\ vulnerabilities' = IF hit THEN logged ELSE vulnerabilities
             /\ count' = IF hit THEN count + 1 ELSE count
             /\ ci' = pos[1]
             /\ last' = Exchange("information_disclosure", Services[si],
                                 DisclosureEndpoints[ci], 0, EmptyDict, NoHeaders, out)
    /\ sent' = [sent EXCEPT !["information_disclosure"] = @ + 1]
    /\ UNCHANGED <<auth_token, pc, si, pi, results, test_results, summary, report,
                   authenticated, up, policy, cap>>

\* test_information_disclosure: results[service_name] = {...}, and the return
DisclosureEndService ==
    /\ pc = "information_disclosure"
    /\ ci > Len(DisclosureEndpoints)
    /\ EndService("information_disclosure",
                  [disclosure_issues |-> count, status |-> StatusOf(count)],
                  "summary")
    /\ UNCHANGED <<auth_token, vulnerabilities, summary, report, authenticated, last,
                   sent, up, policy, cap>>

\* run_comprehensive_test after the probes: the summary it returns
Summarise ==
    /\ pc = "summary"
    /\ summary' =
         [services_tested |-> Len(Services),
          total_vulnerabilities |-> Len(vulnerabilities),
          vulnerability_breakdown |->
              [critical |-> CountSeverity(vulnerabilities, "CRITICAL"),
               high |-> CountSeverity(vulnerabilities, "HIGH"),
               medium |-> CountSeverity(vulnerabilities, "MEDIUM"),
               low |-> CountSeverity(vulnerabilities, "LOW")],
          test_results |-> test_results,
          vulnerabilities |-> vulnerabilities,
          overall_security_status |-> get_overall_security_status(vulnerabilities)]
    /\ pc' = "report"
    /\ UNCHANGED <<auth_token, vulnerabilities, si, ci, pi, count, results, test_results,
                   report, authenticated, last, sent, up, policy, cap>>

\* generate_report after run_comprehensive_test: the report it returns
GenerateReport ==
    /\ pc = "report"
    /\ report' =
         [executive_summary |->
              [services_tested |-> summary.services_tested,
               total_vulnerabilities |-> summary.total_vulnerabilities,
               overall_security_status |-> summary.overall_security_status,
               recommendation |-> get_security_recommendation(summary.overall_security_status)],
          detailed_results |-> summary]
    /\ pc' = "done"
    /\ UNCHANGED <<auth_token, vulnerabilities, si, ci, pi, count, results, test_results,
                   summary, authenticated, last, sent, up, policy, cap>>

\* run_comprehensive_test: the five probes in source order, then the summary
RunComprehensiveTest ==
    \/ BypassRequest
    \/ BypassEndService
    \/ SqlRequest
    \/ SqlEndService
    \/ XssRequest
    \/ XssEndService
    \/ LogicEligibility
    \/ LogicPayment
    \/ LogicOther
    \/ DisclosureRequest
    \/ DisclosureEndService
    \/ Summarise

Next ==
    \/ Authenticate
    \/ RunComprehensiveTest
    \/ GenerateReport

Spec == Init /\ [][Next]_vars

\* each request returns or times out (timeout=10, timeout=30), so main() goes on
FairSpec == Spec /\ WF_vars(Next)

(***************************************************************************)
(* One probe called on a tester constructed with or without a token        *)
(* (DSRPenetrationTester(base_url, auth_token).test_...()).                *)
(***************************************************************************)
Tokens == {None, "tok"}

InitBypass == Construct(Tokens, "authentication_bypass", Deployments, {"free"}, MaxFindings)
NextBypass == BypassRequest \/ BypassEndService
SpecBypass == InitBypass /\ [][NextBypass]_vars

InitSql == Construct(Tokens, "sql_injection", Deployments, {"free"}, MaxFindings)
NextSql == SqlRequest \/ SqlEndService
SpecSql == InitSql /\ [][NextSql]_vars

InitXss == Construct(Tokens, "xss_vulnerabilities", Deployments,
                     {"free", "echo", "escape", "fixed"}, MaxFindings)
NextXss == XssRequest \/ XssEndService
SpecXss == InitXss /\ [][NextXss]_vars

\* here the two services that have a rule may also both be up
LogicDeployments == Deployments \cup {{"eligibility", "payment"}}

InitLogic == Construct(Tokens, "business_logic_flaws", LogicDeployments, {"free"}, MaxFindings)
NextLogic == LogicEligibility \/ LogicPayment \/ LogicOther
SpecLogic == InitLogic /\ [][NextLogic]_vars

InitDisclosure == Construct(Tokens, "information_disclosure", Deployments, {"free"}, MaxFindings)
NextDisclosure == DisclosureRequest \/ DisclosureEndService
SpecDisclosure == InitDisclosure /\ [][NextDisclosure]_vars

(***************************************************************************)
(* The status derivation on any finding list: a caller logs findings of    *)
(* any severity through log_vulnerability, then runs                       *)
(* run_comprehensive_test against a deployment where nothing is up.        *)
(***************************************************************************)
Severities == {"CRITICAL", "HIGH", "MEDIUM", "LOW"}

\* tester.log_vulnerability(...) called by hand
LogVulnerability ==
    /\ pc = "log"
    /\ Len(vulnerabilities) < MaxLogged
    /\ \E severity \in Severities :
         vulnerabilities' = log_vulnerability(vulnerabilities, "registration",
                               "Manual Finding", severity, "logged by hand",
                               "none", "none")
    /\ UNCHANGED <<auth_token, pc, si, ci, pi, count, results, test_results, summary,
                   report, authenticated, last, sent, up, policy, cap>>

\* tester.run_comprehensive_test() called
CallRun ==
    /\ pc = "log"
    /\ pc' = "authentication_bypass"
    /\ UNCHANGED <<auth_token, vulnerabilities, si, ci, pi, count, results, test_results,
                   summary, report, authenticated, last, sent, up, policy, cap>>

InitStatus == Construct({None}, "log", {{}}, {"free"}, 0)
NextStatus == LogVulnerability \/ CallRun \/ RunComprehensiveTest
SpecStatus == InitStatus /\ [][NextStatus]_vars

(***************************************************************************)
(* The five probes called by hand in an order of the caller's choice, each *)
(* once, against services whose response is a function of the request      *)
(* alone; then the summary is built as run_comprehensive_test builds it.    *)
(***************************************************************************)
ProbeSet == {Probes[i] : i \in DOMAIN Probes}

\* the caller stands between two calls: no request of a probe has been issued
\* since the last one returned
AtCallBoundary ==
    /\ pc \in ProbeSet \cup {"summary"}
    /\ si = 1 /\ ci = 1 /\ pi = 1
    /\ count = 0
    /\ results = EmptyDict

\* between two calls the caller turns to any probe it has not run yet, and to the
\* summary once it has run the five
CallAnyProbe ==
    /\ AtCallBoundary
    /\ LET left == ProbeSet \ DOMAIN test_results
       IN  pc' \in IF left = {} THEN {"summary"} ELSE left
    /\ pc' # pc
    /\ UNCHANGED <<auth_token, vulnerabilities, si, ci, pi, count, results, test_results,
                   summary, report, authenticated, last, sent, up, policy, cap>>

\* the steps of the probe the caller has called, if it has not run yet
ProbeStep ==
    /\ pc \notin DOMAIN test_results
    /\ \/ BypassRequest
       \/ BypassEndService
       \/ SqlRequest
       \/ SqlEndService
       \/ XssRequest
       \/ XssEndService
       \/ LogicEligibility
       \/ LogicPayment
       \/ LogicOther
       \/ DisclosureRequest
       \/ DisclosureEndService

\* the summary, once the five probes have returned
SummariseAll == DOMAIN test_results = ProbeSet /\ Summarise

InitOrder == Construct(Tokens, "authentication_bypass", LogicDeployments, {"pattern"}, 0)
NextOrder == CallAnyProbe \/ ProbeStep \/ SummariseAll
SpecOrder == InitOrder /\ [][NextOrder]_vars

(***************************************************************************)
(* A session on one tester: main(), after which the caller may authenticate *)
(* and call generate_report() again, or call generate_report() again right  *)
(* away.  Nothing resets self.vulnerabilities between two scans.            *)
(***************************************************************************)
\* tester.authenticate() or tester.generate_report() called once more
CallAgain ==
    /\ pc = "done"
    /\ Len(vulnerabilities) < MaxSessionFindings
    /\ pc' \in {"authenticate", "authentication_bypass"}
    /\ test_results' = EmptyDict
    /\ last' = NoRequest
    /\ sent' = [p \in DOMAIN sent |-> 0]
    /\ UNCHANGED <<auth_token, vulnerabilities, si, ci, pi, count, results, summary,
                   report, authenticated, up, policy, cap>>

InitSession == Construct({None}, "authenticate", LogicDeployments, {"pattern"}, 0)
NextSession == Next \/ CallAgain
SpecSession == InitSession /\ [][NextSession]_vars

(***************************************************************************)
(* Properties                                                              *)
(***************************************************************************)
\* a step that issues a request
RequestStep == sent' # sent

\* run_comprehensive_test has returned its summary; generate_report its report
Summarised == pc \in {"report", "done"}
Reported == pc = "done"

\* the findings of a list that have a given severity, counted by position
NumberOf(vulns, sev) == Cardinality({i \in DOMAIN vulns : vulns[i].severity = sev})

\* the status the derivation rule gives for c CRITICAL and h HIGH findings
RiskOf(c, h) ==
    IF c >= 1 THEN "CRITICAL_RISK"
    ELSE IF h > 3 THEN "HIGH_RISK"
    ELSE IF h >= 1 THEN "MEDIUM_RISK"
    ELSE "LOW_RISK"

\* a finding of a given severity, as a caller could log it
FindingOf(sev) ==
    [service |-> "registration", type |-> "Manual Finding", severity |-> sev,
     description |-> "logged by hand", evidence |-> "none", recommendation |-> "none"]

\* C1: for every content of the finding list, get_overall_security_status is
\* CRITICAL_RISK with at least one CRITICAL finding, otherwise HIGH_RISK with more
\* than 3 HIGH findings, otherwise MEDIUM_RISK with 1 to 3 HIGH findings, otherwise
\* LOW_RISK; one more MEDIUM or LOW finding never changes it; and the status in the
\* summary of run_comprehensive_test is the one the rule gives for the critical and
\* high counts of the breakdown in the same summary.
C1_StatusDerivation ==
    /\ get_overall_security_status(vulnerabilities)
         = RiskOf(NumberOf(vulnerabilities, "CRITICAL"), NumberOf(vulnerabilities, "HIGH"))
    /\ \A sev \in {"MEDIUM", "LOW"} :
         get_overall_security_status(Append(vulnerabilities, FindingOf(sev)))
           = get_overall_security_status(vulnerabilities)
    /\ Summarised =>
         /\ summary.overall_security_status
              = RiskOf(summary.vulnerability_breakdown.critical,
                       summary.vulnerability_breakdown.high)
         /\ summary.vulnerability_breakdown.critical = NumberOf(vulnerabilities, "CRITICAL")
         /\ summary.vulnerability_breakdown.high = NumberOf(vulnerabilities, "HIGH")

\* C1 happens: a summary over four HIGH findings and no CRITICAL one says HIGH_RISK
C1_Witness ==
    /\ Summarised
    /\ summary.vulnerability_breakdown.critical = 0
    /\ summary.vulnerability_breakdown.high = 4
    /\ summary.overall_security_status = "HIGH_RISK"

\* where a probe stands after a request that found nothing, from (si, ci, pi)
AfterMiss ==
    CASE pc \in {"authentication_bypass", "information_disclosure"} -> <<si, ci + 1, pi>>
      [] pc \in {"sql_injection", "xss_vulnerabilities"} ->
            IF pi < 5 THEN <<si, ci, pi + 1>> ELSE <<si, ci + 1, 1>>
      [] OTHER -> <<si, ci, pi>>

\* the entry the business-logic probe has just written
LogicEntryWritten ==
    IF si < Len(Services) THEN results'[Services[si]]
    ELSE test_results'["business_logic_flaws"][Services[si]]

\* a request that fails appends nothing, counts nothing, and leaves the probe
\* where a request that found nothing would have left it
C2_FailedStep ==
    (RequestStep /\ last'.failed) =>
        /\ vulnerabilities' = vulnerabilities
        /\ CASE pc = "authenticate" -> pc' = "authentication_bypass" /\ authenticated' = FALSE
             [] pc = "business_logic_flaws" ->
                   /\ LogicEntryWritten = [logic_flaws |-> 0, status |-> "SECURE"]
                   /\ IF si < Len(Services) THEN pc' = pc /\ si' = si + 1
                      ELSE pc' = "information_disclosure"
             [] OTHER -> /\ pc' = pc
                         /\ count' = count
                         /\ <<si', ci', pi'>> = AfterMiss

\* what a probe returned has an entry for each of the seven services, and the
\* summary holds what all five probes returned
C2_Results ==
    /\ \A p \in DOMAIN test_results : DOMAIN test_results[p] = ServiceSet
    /\ Summarised =>
         /\ DOMAIN summary.test_results = {Probes[i] : i \in DOMAIN Probes}
         /\ summary.services_tested = 7

\* C2: fault isolation. In each probe a request that times out or raises appends
\* no finding and adds nothing to the per-service tally, the remaining requests of
\* the probe go on as after a request that found nothing, the later probes run, each
\* probe returns an entry for all seven services, and the scan always reaches the
\* summary.
C2_FaultIsolation ==
    /\ [][C2_FailedStep]_vars
    /\ []C2_Results
    /\ <>(Summarised)

\* C2 happens: a scan that logged a finding, whose last request failed, is done
\* with all its entries
C2_Witness ==
    /\ pc = "done"
    /\ last.failed
    /\ vulnerabilities # <<>>
    /\ \A p \in DOMAIN test_results : DOMAIN test_results[p] = ServiceSet

\* the body shows a database error
DatabaseError(body) ==
    \E e \in {SqlErrors[k] : k \in DOMAIN SqlErrors} : Contains(Lower(body), e)

\* the findings of a service that name an endpoint
FindingsAt(service, about, endpoint) ==
    {i \in DOMAIN vulnerabilities :
        /\ vulnerabilities[i].service = service
        /\ vulnerabilities[i].description = <<about, endpoint>>}

\* the findings of a service
FindingsOf(service) == {i \in DOMAIN vulnerabilities : vulnerabilities[i].service = service}

\* one request of the SQL-injection probe: the payloads in list order, a finding
\* exactly for a database error, and after it the next test case
C3_Step ==
    IF RequestStep
    THEN /\ last'.payload = pi
         /\ last'.data = [k \in {SqlTestCases[ci].param} |-> SqlPayloads[pi]]
         /\ IF pi = 1 THEN TRUE
            ELSE /\ last.payload = pi - 1
                 /\ last.service = last'.service
                 /\ last.url = last'.url
         /\ IF ~last'.failed /\ DatabaseError(last'.body)
            THEN /\ Len(vulnerabilities') = Len(vulnerabilities) + 1
                 /\ SubSeq(vulnerabilities', 1, Len(vulnerabilities)) = vulnerabilities
                 /\ LET f == vulnerabilities'[Len(vulnerabilities')]
                    IN  /\ f.service = Services[si]
                        /\ f.type = "SQL Injection"
                        /\ f.severity = "CRITICAL"
                 /\ count' = count + 1
                 /\ <<ci', pi'>> = <<ci + 1, 1>>
            ELSE /\ vulnerabilities' = vulnerabilities
                 /\ count' = count
    ELSE vulnerabilities' = vulnerabilities

\* at most one finding for a service and a test case, and the tally of a service
\* is the number of its findings
C3_Tally ==
    /\ \A s \in ServiceSet : \A c \in DOMAIN SqlTestCases :
         Cardinality(FindingsAt(s, "SQL injection vulnerability in", SqlTestCases[c].endpoint)) <= 1
    /\ \A s \in DOMAIN results :
         /\ results[s].vulnerable_endpoints = Cardinality(FindingsOf(s))
         /\ results[s].status = IF Cardinality(FindingsOf(s)) = 0 THEN "SECURE" ELSE "VULNERABLE"

\* C3: SQL-injection probe. For every service and test case the five payloads are
\* tried in list order; the first response whose lower-cased body contains one of
\* the six database-error substrings, whatever its status, appends exactly one
\* CRITICAL 'SQL Injection' finding, and no further payload of the test case is
\* requested; so a service and a test case have at most one finding, and a service
\* with one such endpoint gets one finding and vulnerable_endpoints = 1.
C3_SqlShortCircuit ==
    /\ [][C3_Step]_vars
    /\ []C3_Tally

\* C3 happens: the first service showed a database error on the first payload of one
\* test case, so 1 + 5 + 5 requests were sent to it
C3_Witness ==
    /\ si = 2
    /\ results[Services[1]] = [vulnerable_endpoints |-> 1, status |-> "VULNERABLE"]
    /\ sent["sql_injection"] = 11
    /\ Len(vulnerabilities) = 1

\* the position of a value in a list without repetitions
IndexOf(seq, x) == CHOOSE i \in DOMAIN seq : seq[i] = x

\* the XSS probe is past endpoint c of the service at position s
XssPast(s, c) == pc # "xss_vulnerabilities" \/ si > s \/ (si = s /\ ci > c)

\* the XSS findings about endpoint c of the service at position s
XssFindingsAt(s, c) == FindingsAt(Services[s], "XSS vulnerability in", XssEndpoints[c].url)

\* the payloads of the list that contain the '<script>' marker
ScriptPayloads == {p \in DOMAIN XssPayloads : Contains(XssPayloads[p], ScriptMarker)}

\* one request of the XSS probe: a finding is appended exactly when the status is
\* 200 or 201 and the body contains the submitted payload and the '<script>' marker
C4_Step ==
    IF RequestStep
    THEN /\ last'.payload = pi
         /\ IF /\ ~last'.failed
               /\ last'.status \in {200, 201}
               /\ Contains(last'.body, XssPayloads[pi])
               /\ Contains(last'.body, ScriptMarker)
            THEN /\ Len(vulnerabilities') = Len(vulnerabilities) + 1
                 /\ SubSeq(vulnerabilities', 1, Len(vulnerabilities)) = vulnerabilities
                 /\ LET f == vulnerabilities'[Len(vulnerabilities')]
                    IN  /\ f.service = Services[si]
                        /\ f.type = "Cross-Site Scripting (XSS)"
                        /\ f.severity = "HIGH"
                        /\ f.description = <<"XSS vulnerability in", XssEndpoints[ci].url>>
                        /\ f.evidence[2] = pi
            ELSE vulnerabilities' = vulnerabilities
    ELSE vulnerabilities' = vulnerabilities

\* a response that HTML-escapes the payload, or has a status outside {200, 201},
\* records nothing
C4_NoFinding ==
    (RequestStep /\ ~last'.failed
       /\ (last'.status \notin {200, 201} \/ last'.body = HtmlEscape(XssPayloads[pi])))
    => vulnerabilities' = vulnerabilities

\* the findings of the endpoints the probe is past, by how the service that is up
\* answers: echoing the payload, escaping it, or always showing the first payload
C4_PerEndpoint ==
    \A s \in DOMAIN Services : \A c \in DOMAIN XssEndpoints :
        (Services[s] \in up /\ XssPast(s, c)) =>
            /\ policy = "echo" =>
                 /\ Cardinality(XssFindingsAt(s, c)) = Cardinality(ScriptPayloads)
                 /\ {vulnerabilities[i].evidence[2] : i \in XssFindingsAt(s, c)} = ScriptPayloads
            /\ policy = "escape" => XssFindingsAt(s, c) = {}
            /\ policy = "fixed" =>
                 /\ Cardinality(XssFindingsAt(s, c)) = 1
                 /\ {vulnerabilities[i].evidence[2] : i \in XssFindingsAt(s, c)} = {1}

\* C4 (as amended): XSS probe. For an endpoint of a service that answers every
\* submission with status 201 (or 200) and a body that echoes the submitted payload
\* verbatim, one HIGH 'Cross-Site Scripting (XSS)' finding is recorded for each
\* payload of the list that contains '<script>', the first and the fifth: two
\* findings for that endpoint over the whole payload list (and one when the body is
\* always the first payload's text). An endpoint whose responses HTML-escape the
\* payload, and any response with a status outside {200, 201}, record none.
C4_XssFindings ==
    /\ [][C4_Step /\ C4_NoFinding]_vars
    /\ [](ScriptPayloads = {1, 5})
    /\ []C4_PerEndpoint

\* C4 happens: the probe is past the first endpoint of a service that echoes every
\* payload, and two findings name that endpoint
C4_Witness ==
    /\ policy = "echo"
    /\ \E s \in DOMAIN Services :
         /\ Services[s] \in up
         /\ si = s /\ ci = 2 /\ pi = 1
         /\ Cardinality(XssFindingsAt(s, 1)) = 2

\* C4 as the specification states it: an endpoint of a service that echoes every
\* payload has exactly one finding over the whole payload list
C4_OneFindingPerEchoEndpoint ==
    \A s \in DOMAIN Services : \A c \in DOMAIN XssEndpoints :
        (Services[s] \in up /\ XssPast(s, c)) =>
            /\ policy = "echo" => Cardinality(XssFindingsAt(s, c)) = 1
            /\ policy = "escape" => XssFindingsAt(s, c) = {}

\* the requests the business-logic probe has sent when it stands at service si
LogicRequestsDue ==
    IF pc # "business_logic_flaws" THEN 2
    ELSE Cardinality({s \in 1..(si - 1) : Services[s] \in {"eligibility", "payment"}})

\* one request of the business-logic probe: the out-of-range value goes to the
\* service that has the rule, and a finding is appended exactly for status 200 or 201
C5_Step ==
    IF RequestStep
    THEN /\ sent'["business_logic_flaws"] = sent["business_logic_flaws"] + 1
         /\ last'.service = Services[si]
         /\ \/ /\ last'.service = "eligibility"
               /\ last'.url = "/api/v1/eligibility/assessments"
               /\ last'.data.monthlyIncome = -50000
            \/ /\ last'.service = "payment"
               /\ last'.url = "/api/v1/payments"
               /\ last'.data.amount = 999999999
         /\ IF ~last'.failed /\ last'.status \in {200, 201}
            THEN /\ Len(vulnerabilities') = Len(vulnerabilities) + 1
                 /\ SubSeq(vulnerabilities', 1, Len(vulnerabilities)) = vulnerabilities
                 /\ LET f == vulnerabilities'[Len(vulnerabilities')]
                    IN  /\ f.service = last'.service
                        /\ f.type = "Business Logic Bypass"
                        /\ f.severity = IF last'.service = "eligibility" THEN "HIGH"
                                        ELSE "CRITICAL"
                 /\ LogicEntryWritten = [logic_flaws |-> 1, status |-> "VULNERABLE"]
            ELSE /\ vulnerabilities' = vulnerabilities
                 /\ LogicEntryWritten = [logic_flaws |-> 0, status |-> "SECURE"]
    ELSE vulnerabilities' = vulnerabilities

\* one request to each of the two services in a pass, none to the other five, whose
\* entries are always logic_flaws = 0 and SECURE
C5_Pass ==
    /\ sent["business_logic_flaws"] = LogicRequestsDue
    /\ \A s \in DOMAIN results :
         s \notin {"eligibility", "payment"} =>
             results[s] = [logic_flaws |-> 0, status |-> "SECURE"]
    /\ \A p \in DOMAIN test_results : \A s \in ServiceSet :
         s \notin {"eligibility", "payment"} =>
             test_results[p][s] = [logic_flaws |-> 0, status |-> "SECURE"]

\* C5: business-logic probe. In one pass exactly one request goes to the eligibility
\* service (monthlyIncome = -50000) and exactly one to the payment service
\* (amount = 999999999), none to the other five. The eligibility request appends
\* exactly one HIGH 'Business Logic Bypass' finding iff its status is 200 or 201, the
\* payment request exactly one CRITICAL finding iff its status is 200 or 201; any
\* other status or a failed request appends nothing. The other five services always
\* get logic_flaws = 0 and SECURE.
C5_BusinessLogic ==
    /\ [][C5_Step]_vars
    /\ []C5_Pass

\* C5 happens: a pass is over in which both submissions were accepted, the payment
\* one with status 201
C5_Witness ==
    /\ pc = "information_disclosure"
    /\ sent["business_logic_flaws"] = 2
    /\ Len(vulnerabilities) = 2
    /\ vulnerabilities[1].severity = "HIGH"
    /\ vulnerabilities[2].severity = "CRITICAL"
    /\ last.status = 201
    /\ test_results["business_logic_flaws"]["registration"].status = "SECURE"

\* the response of a request satisfies the classification rule of its probe
RuleSatisfied(x) ==
    /\ ~x.failed
    /\ CASE x.probe = "authentication_bypass" ->
              /\ x.status = 200
              /\ \E k \in {BypassKeywords[j] : j \in DOMAIN BypassKeywords} :
                    Contains(Lower(x.body), k)
         [] x.probe = "sql_injection" -> DatabaseError(x.body)
         [] x.probe = "xss_vulnerabilities" ->
              /\ x.status \in {200, 201}
              /\ Contains(x.body, XssPayloads[x.payload])
              /\ Contains(x.body, ScriptMarker)
         [] x.probe = "business_logic_flaws" -> x.status \in {200, 201}
         [] x.probe = "information_disclosure" ->
              /\ x.status # 404
              /\ \E k \in {SensitiveKeywords[j] : j \in DOMAIN SensitiveKeywords} :
                    Contains(Lower(x.body), k)
         [] OTHER -> FALSE

\* the finding list and a tally change only with a response that satisfies the
\* rule of its probe
C6_Step ==
    (vulnerabilities' # vulnerabilities \/ count' > count)
    => (RequestStep /\ RuleSatisfied(last'))

\* the report of a scan that recorded nothing
C6_CleanReport ==
    (Reported /\ vulnerabilities = <<>>) =>
        /\ report.executive_summary.total_vulnerabilities = 0
        /\ report.executive_summary.overall_security_status = "LOW_RISK"
        /\ report.detailed_results.total_vulnerabilities = 0
        /\ report.detailed_results.overall_security_status = "LOW_RISK"
        /\ report.detailed_results.vulnerability_breakdown
             = [critical |-> 0, high |-> 0, medium |-> 0, low |-> 0]
        /\ DOMAIN report.detailed_results.test_results = {Probes[i] : i \in DOMAIN Probes}
        /\ \A p \in DOMAIN report.detailed_results.test_results : \A s \in ServiceSet :
             report.detailed_results.test_results[p][s].status = "SECURE"

\* C6: end to end. For a freshly constructed tester, if no response of the scan
\* satisfies any probe's classification rule (also when every request fails, also
\* when authentication failed), the report of generate_report has
\* total_vulnerabilities = 0, all four breakdown counts 0, LOW_RISK in both
\* executive_summary and detailed_results, and SECURE for every service in every
\* probe's result.
C6_CleanScan ==
    /\ [][C6_Step]_vars
    /\ []C6_CleanReport

\* C6 happens: only the analytics service answered, so authentication failed; no
\* response satisfied a rule, and the report says 0 and LOW_RISK
C6_Witness ==
    /\ Reported
    /\ up = {"analytics"}
    /\ authenticated = FALSE
    /\ ~last.failed
    /\ report.executive_summary.total_vulnerabilities = 0
    /\ report.executive_summary.overall_security_status = "LOW_RISK"

\* C7 as the specification states it: authenticate issues one login request and
\* never retries; it returns success exactly when the status is 200, and then the
\* stored auth_token is the string of the body's accessToken field, so that
\* get_headers attaches an Authorization: Bearer header; on any other status or a
\* network failure it returns failure and holds no token; in both outcomes the scan
\* that follows runs all five probes.
C7_Authenticator ==
    /\ sent["login"] = IF pc = "authenticate" THEN 0 ELSE 1
    /\ last.probe = "login" =>
         /\ last.service = "registration"
         /\ (authenticated = TRUE) <=> (~last.failed /\ last.status = 200)
         /\ authenticated = TRUE =>
              /\ last.body.json
              /\ "accessToken" \in DOMAIN last.body.obj
              /\ auth_token = last.body.obj["accessToken"]
              /\ "Authorization" \in DOMAIN get_headers(TRUE, auth_token)
              /\ get_headers(TRUE, auth_token)["Authorization"] = <<"Bearer", auth_token>>
         /\ authenticated = FALSE => auth_token = None
    /\ Reported => DOMAIN test_results = {Probes[i] : i \in DOMAIN Probes}

\* the keywords of the disclosure probe that occur in a lower-cased body
KeywordsIn(body) ==
    {k \in {SensitiveKeywords[j] : j \in DOMAIN SensitiveKeywords} : Contains(Lower(body), k)}

\* one request of the disclosure probe: exactly one MEDIUM finding iff the status
\* is not 404 and the lower-cased body contains a keyword
C8_Step ==
    IF RequestStep
    THEN /\ last'.service = Services[si]
         /\ last'.url = DisclosureEndpoints[ci]
         /\ ci' = ci + 1
         /\ IF ~last'.failed /\ last'.status # 404 /\ KeywordsIn(last'.body) # {}
            THEN /\ Len(vulnerabilities') = Len(vulnerabilities) + 1
                 /\ SubSeq(vulnerabilities', 1, Len(vulnerabilities)) = vulnerabilities
                 /\ LET f == vulnerabilities'[Len(vulnerabilities')]
                    IN  /\ f.service = Services[si]
                        /\ f.type = "Information Disclosure"
                        /\ f.severity = "MEDIUM"
                 /\ count' = count + 1
            ELSE /\ vulnerabilities' = vulnerabilities
                 /\ count' = count
    ELSE vulnerabilities' = vulnerabilities

\* a service has at most as many findings as endpoints requested, five at most,
\* and a pass at most as many as its requests, 35 at most
C8_Counts ==
    /\ count <= ci - 1
    /\ ci - 1 <= 5
    /\ \A s \in DOMAIN results :
         /\ results[s].disclosure_issues = Cardinality(FindingsOf(s))
         /\ results[s].disclosure_issues <= 5
    /\ Len(vulnerabilities) <= sent["information_disclosure"]
    /\ sent["information_disclosure"] <= 35

\* C8: information-disclosure probe. For every service and each of its five
\* endpoints, exactly one MEDIUM 'Information Disclosure' finding is appended iff
\* the status is not 404 and the lower-cased body contains at least one of the nine
\* keywords; a 404 never yields a finding whatever its body, a body with several
\* keywords yields a single finding; so at most 5 findings per service and 35 per
\* pass.
C8_Disclosure ==
    /\ [][C8_Step]_vars
    /\ []C8_Counts

\* C8 happens: an error page with several keywords gave one finding, and after it
\* a 404 with the same body gave none
C8_Witness ==
    /\ last.probe = "information_disclosure"
    /\ last.status = 404
    /\ Cardinality(KeywordsIn(last.body)) > 1
    /\ Len(vulnerabilities) = 1
    /\ Len(vulnerabilities[1].evidence[2]) > 1
    /\ count = 1

\* one request of the bypass probe: no Authorization header, and exactly one HIGH
\* finding iff the status is 200 and the lower-cased body contains a keyword
C9_Step ==
    IF RequestStep
    THEN /\ last'.service = Services[si]
         /\ last'.url = BypassEndpoints[ci]
         /\ "Authorization" \notin DOMAIN last'.headers
         /\ IF /\ ~last'.failed
               /\ last'.status = 200
               /\ \E k \in { <<"p","a","s","s","w","o","r","d">>, <<"s","e","c","r","e","t">>,
                             <<"k","e","y">>, <<"t","o","k","e","n">> } :
                     Contains(Lower(last'.body), k)
            THEN /\ Len(vulnerabilities') = Len(vulnerabilities) + 1
                 /\ SubSeq(vulnerabilities', 1, Len(vulnerabilities)) = vulnerabilities
                 /\ LET f == vulnerabilities'[Len(vulnerabilities')]
                    IN  /\ f.service = Services[si]
                        /\ f.type = "Sensitive Data Exposure"
                        /\ f.severity = "HIGH"
                 /\ count' = count + 1
            ELSE /\ vulnerabilities' = vulnerabilities
                 /\ count' = count
    ELSE vulnerabilities' = vulnerabilities

\* C9: authentication-bypass probe. Every request of the probe is sent without an
\* Authorization header, also when the tester holds a bearer token; for every
\* service and each of its five endpoints exactly one HIGH 'Sensitive Data
\* Exposure' finding is appended iff the status is exactly 200 and the lower-cased
\* body contains one of 'password', 'secret', 'key', 'token'; a response with any
\* other status never yields a finding.
C9_AuthBypass == [][C9_Step]_vars

\* C9 happens: a tester that holds a token got a leaking 200, logged the finding,
\* and its next request, again without the header, got a leaking 403
C9_Witness ==
    /\ Truthy(auth_token)
    /\ "Authorization" \in DOMAIN get_headers(TRUE, auth_token)
    /\ last.probe = "authentication_bypass"
    /\ "Authorization" \notin DOMAIN last.headers
    /\ last.status = 403
    /\ last.body = BodyApiKey
    /\ Len(vulnerabilities) = 1
    /\ count = 1

\* the endpoints (test cases) of a probe, in list order
CasesOf(probe) ==
    CASE probe = "authentication_bypass" -> BypassEndpoints
      [] probe = "sql_injection" -> [c \in DOMAIN SqlTestCases |-> SqlTestCases[c].endpoint]
      [] probe = "xss_vulnerabilities" -> [c \in DOMAIN XssEndpoints |-> XssEndpoints[c].url]
      [] probe = "business_logic_flaws" ->
            <<"/api/v1/eligibility/assessments", "/api/v1/payments">>
      [] OTHER -> DisclosureEndpoints

\* a request lies in the fixed matrix of its probe
InMatrix(x) ==
    /\ x.probe \in {Probes[i] : i \in DOMAIN Probes}
    /\ x.service \in ServiceSet
    /\ x.url \in {CasesOf(x.probe)[c] : c \in DOMAIN CasesOf(x.probe)}
    /\ x.payload \in IF x.probe \in {"sql_injection", "xss_vulnerabilities"} THEN 1..5 ELSE {0}

\* the place of a request in the scan: probe, service, test case, payload
TripleOf(x) ==
    <<IndexOf(Probes, x.probe), IndexOf(Services, x.service),
      IndexOf(CasesOf(x.probe), x.url), x.payload>>

\* lexicographic order on places
Before(a, b) ==
    \E k \in 1..4 : a[k] < b[k] /\ \A j \in 1..(k - 1) : a[j] = b[j]

\* the SQL payloads never requested: those after the payload of each finding
RECURSIVE SqlSkipped(_)
SqlSkipped(vulns) ==
    IF vulns = <<>> THEN 0
    ELSE SqlSkipped(Tail(vulns))
         + (IF Head(vulns).type = "SQL Injection"
            THEN 5 - IndexOf(SqlPayloads, Head(vulns).evidence[2])
            ELSE 0)

\* each request of a probe lies in the probe's matrix and comes strictly after the
\* request before it, failed or not; after a hit the SQL probe leaves the test case
C10_Step ==
    (RequestStep /\ last'.probe # "login") =>
        /\ InMatrix(last')
        /\ last.probe \notin {"none", "login"} => Before(TripleOf(last), TripleOf(last'))
        /\ (last.probe = "sql_injection" /\ RuleSatisfied(last)
              /\ last'.probe = "sql_injection")
           => <<last'.service, last'.url>> # <<last.service, last.url>>

\* the requests of a scan: never more than the matrices hold, and at the end all of
\* them but the SQL payloads that come after a hit
C10_Counts ==
    /\ sent["authentication_bypass"] <= 35
    /\ sent["sql_injection"] <= 105
    /\ sent["xss_vulnerabilities"] <= 105
    /\ sent["business_logic_flaws"] <= 2
    /\ sent["information_disclosure"] <= 35
    /\ Summarised =>
         /\ sent["authentication_bypass"] = 35
         /\ sent["sql_injection"] = 105 - SqlSkipped(vulnerabilities)
         /\ sent["xss_vulnerabilities"] = 105
         /\ sent["business_logic_flaws"] = 2
         /\ sent["information_disclosure"] = 35

\* C10: within one scan no (service, test case, payload) triple is requested more
\* than once, also after its request failed, and every triple of every probe's
\* matrix is requested exactly once, except the SQL payloads that come after a hit
\* in the same test case, which are never requested; so the requests of a scan are
\* bounded by 35 auth-bypass, at most 105 SQL, 105 XSS, 2 business-logic and 35
\* disclosure.
C10_ExactlyOnce ==
    /\ [][C10_Step]_vars
    /\ []C10_Counts

\* C10 happens: a scan is done in which requests failed and a SQL hit on a first
\* payload left four payloads of that test case unrequested
C10_Witness ==
    /\ Reported
    /\ last.failed
    /\ sent["sql_injection"] = 101
    /\ sent["xss_vulnerabilities"] = 105

\* the probe that logs findings of a type
ProbeOfType(type) ==
    CASE type = "Sensitive Data Exposure" -> "authentication_bypass"
      [] type = "SQL Injection" -> "sql_injection"
      [] type = "Cross-Site Scripting (XSS)" -> "xss_vulnerabilities"
      [] type = "Business Logic Bypass" -> "business_logic_flaws"
      [] type = "Information Disclosure" -> "information_disclosure"

\* the place a finding speaks of: probe, service, test case, payload (as TripleOf
\* gives it for a request)
FindingPlace(f) ==
    LET probe == ProbeOfType(f.type)
    IN  <<IndexOf(Probes, probe),
          IndexOf(Services, f.service),
          IF probe = "business_logic_flaws"
          THEN (IF f.service = "eligibility" THEN 1 ELSE 2)
          ELSE IndexOf(CasesOf(probe), f.description[2]),
          CASE probe = "sql_injection" -> IndexOf(SqlPayloads, f.evidence[2])
            [] probe = "xss_vulnerabilities" -> f.evidence[2]
            [] OTHER -> 0>>

\* the places of the findings of a list
PlacesOf(vulns) == {FindingPlace(vulns[i]) : i \in DOMAIN vulns}

\* the severity the rule of a place assigns
SeverityAt(place) ==
    CASE place[1] \in {1, 3} -> "HIGH"
      [] place[1] = 2 -> "CRITICAL"
      [] place[1] = 4 -> (IF place[3] = 1 THEN "HIGH" ELSE "CRITICAL")
      [] OTHER -> "MEDIUM"

\* a patterned service that is up answers the request of a place (probe, service
\* s, and the positions c, p at which the probe stands when it asks) with a
\* response that satisfies the probe's rule
Detected(probe, s, c, p) ==
    /\ Services[s] \in up
    /\ LET a == PatternAnswer(probe, s, c, p)
       IN  RuleSatisfied([probe |-> probe, payload |-> p, failed |-> FALSE,
                          status |-> a.status, body |-> a.body])

\* the places where one pass of the five probes against patterned services must
\* log a finding, whatever the order of the probes
ExpectedPlaces ==
    {<<1, s, c, 0>> : <<s, c>> \in
        {sc \in (1..7) \X (1..5) : Detected("authentication_bypass", sc[1], sc[2], 1)}}
    \cup {scp \in {2} \X (1..7) \X (1..3) \X (1..5) :
            /\ Detected("sql_injection", scp[2], scp[3], scp[4])
            /\ \A q \in 1..(scp[4] - 1) : ~Detected("sql_injection", scp[2], scp[3], q)}
    \cup {scp \in {3} \X (1..7) \X (1..3) \X (1..5) :
            Detected("xss_vulnerabilities", scp[2], scp[3], scp[4])}
    \cup {<<4, sk[1], sk[2], 0>> : sk \in
            {x \in {<<3, 1>>, <<5, 2>>} : Detected("business_logic_flaws", x[1], 1, 1)}}
    \cup {<<5, s, c, 0>> : <<s, c>> \in
        {sc \in (1..7) \X (1..5) : Detected("information_disclosure", sc[1], sc[2], 1)}}

\* the name of a probe's tally
TallyName(probe) ==
    CASE probe = "authentication_bypass" -> "bypass_attempts"
      [] probe = "sql_injection" -> "vulnerable_endpoints"
      [] probe = "xss_vulnerabilities" -> "vulnerable_fields"
      [] probe = "business_logic_flaws" -> "logic_flaws"
      [] probe = "information_disclosure" -> "disclosure_issues"

\* no step of a probe changes the bearer token or a finding that is in the list
C11_Step ==
    /\ auth_token' = auth_token
    /\ Len(vulnerabilities') >= Len(vulnerabilities)
    /\ SubSeq(vulnerabilities', 1, Len(vulnerabilities)) = vulnerabilities

\* what the five probes have left behind, in whatever order they ran
C11_Outcome ==
    Summarised =>
        LET expected == ExpectedPlaces
            among(sev) == Cardinality({pl \in expected : SeverityAt(pl) = sev})
        IN  /\ PlacesOf(vulnerabilities) = expected
            /\ Len(vulnerabilities) = Cardinality(expected)
            /\ \A i \in DOMAIN vulnerabilities :
                 vulnerabilities[i].severity = SeverityAt(FindingPlace(vulnerabilities[i]))
            /\ \A k \in DOMAIN Probes : \A s \in DOMAIN Services :
                 LET tally == Cardinality({pl \in expected : pl[1] = k /\ pl[2] = s})
                 IN  summary.test_results[Probes[k]][Services[s]]
                       = [n \in {TallyName(Probes[k]), "status"} |->
                            IF n = "status"
                            THEN (IF tally > 0 THEN "VULNERABLE" ELSE "SECURE")
                            ELSE tally]
            /\ summary.vulnerability_breakdown
                 = [critical |-> among("CRITICAL"), high |-> among("HIGH"),
                    medium |-> among("MEDIUM"), low |-> among("LOW")]
            /\ summary.overall_security_status = RiskOf(among("CRITICAL"), among("HIGH"))

\* C11: the five probes are order-insensitive. No probe changes the bearer token,
\* the service mapping or an existing finding; its only effect on the tester is
\* appends to the finding list. So, when each response is a function of the request
\* alone, the five probes run in any order on a fresh tester leave the same set of
\* findings (list order aside), the same per-service tallies of each probe, the same
\* severity histogram and the same overall status as the source order: those the
\* responses determine.
C11_OrderInsensitive ==
    /\ [][C11_Step]_vars
    /\ []C11_Outcome

\* C11 happens: the probes ran in another order than the source's (the disclosure
\* probe logged first, the bypass probe last), and the summary is built
C11_Witness ==
    /\ Summarised
    /\ Len(vulnerabilities) >= 2
    /\ vulnerabilities[1].type = "Information Disclosure"
    /\ vulnerabilities[Len(vulnerabilities)].type = "Sensitive Data Exposure"
    /\ \E i \in DOMAIN vulnerabilities : vulnerabilities[i].type = "SQL Injection"

\* the sum of a function of numbers
RECURSIVE SumOf(_)
SumOf(f) ==
    IF DOMAIN f = {} THEN 0
    ELSE LET x == CHOOSE y \in DOMAIN f : TRUE
         IN  f[x] + SumOf([y \in DOMAIN f \ {x} |-> f[y]])

\* the tallies of what a probe returned, added up
TallySum(probe, entries) == SumOf([s \in DOMAIN entries |-> entries[s][TallyName(probe)]])

\* the findings the probes of the current scan have counted so far
CountedInScan ==
    SumOf([p \in DOMAIN test_results |-> TallySum(p, test_results[p])])
    + (IF pc \in ProbeSet THEN TallySum(pc, results) + count ELSE 0)

\* one step of a session: the old list is a prefix of the new one; a response that
\* satisfies its probe's rule appends exactly one finding, which speaks of the
\* request just made; nothing else changes the list; and within one call the
\* requests come in the order probe, service, test case, payload
C12_Step ==
    LET requested == \E p \in DOMAIN sent : sent'[p] = sent[p] + 1
    IN  /\ IF requested /\ RuleSatisfied(last')
           THEN /\ Len(vulnerabilities') = Len(vulnerabilities) + 1
                /\ SubSeq(vulnerabilities', 1, Len(vulnerabilities)) = vulnerabilities
                /\ FindingPlace(vulnerabilities'[Len(vulnerabilities')]) = TripleOf(last')
           ELSE vulnerabilities' = vulnerabilities
        /\ (requested /\ last.probe \notin {"none", "login"} /\ last'.probe # "login")
           => Before(TripleOf(last), TripleOf(last'))

\* the findings of the current scan, the last ones of the list, are in the order
\* probe, service, test case, payload
C12_ScanOrder ==
    /\ CountedInScan <= Len(vulnerabilities)
    /\ \A i, j \in (Len(vulnerabilities) - CountedInScan + 1)..Len(vulnerabilities) :
         i < j => Before(FindingPlace(vulnerabilities[i]), FindingPlace(vulnerabilities[j]))

\* C12: the finding list is append-only and in discovery order. In every step of a
\* sequence of operations on a tester (authenticate, the probes, run_comprehensive_test,
\* generate_report, also when the scan is run more than once) the previous list is a
\* prefix of the new one, no finding is modified, removed or reordered, and each
\* detection appends exactly one finding. Within one run the list is grouped by
\* probe in the order bypass, SQL injection, XSS, business logic, disclosure, and
\* inside a probe follows service order, then test-case order, then payload order.
C12_AppendOnly ==
    /\ [][C12_Step]_vars
    /\ []C12_ScanOrder

\* C12 happens: a second scan on the same tester is over; the findings of the first
\* scan are still there and the same findings follow them once more
C12_Witness ==
    /\ pc = "done"
    /\ CountedInScan >= 2
    /\ Len(vulnerabilities) = 2 * CountedInScan
    /\ \A i \in 1..CountedInScan : vulnerabilities[i] = vulnerabilities[i + CountedInScan]
    /\ \E i \in DOMAIN vulnerabilities : vulnerabilities[i].type = "SQL Injection"
    /\ \E i \in DOMAIN vulnerabilities : vulnerabilities[i].type = "Information Disclosure"

\* the tallies of the five probes over the seven services in a summary, added up
SummaryTallies(s) ==
    SumOf([p \in DOMAIN s.test_results |-> TallySum(p, s.test_results[p])])

====
